---- MODULE Spec2Model ----
(***************************************************************************)
(* A model of tapify (src/tap/tapify.py): the derivation of a command-line *)
(* argument schema from a callable's signature, the parse of the command   *)
(* line against it, the merge of leftover tokens into **kwargs, and the    *)
(* final call.  One run of tapify is one behaviour; pc is the position in  *)
(* the function body.                                                      *)
(***************************************************************************)
EXTENDS Integers, Sequences, FiniteSets, TLC

VARIABLES
    class_or_function,   \* the callable handed to tapify (never changes)
    command_line_args,   \* the raw tokens handed to tapify (never changes)
    kwargs_in,           \* **func_kwargs as the caller supplied them
    known_only_in,       \* known_only as the caller supplied it
    pc,                  \* position in tapify's body
    idx,                 \* index of the next parameter of the loop, line 56
    doc,                 \* the documentation text chosen, lines 37-40
    description,         \* the Tap description, line 49
    param_to_description,\* line 46
    annotations,         \* tap._annotations
    class_variables,     \* tap.class_variables
    arguments,           \* the tap._add_argument calls made, in order
    has_kwargs,          \* line 53
    known_only,          \* the local known_only, reassigned at line 62
    func_kwargs,         \* the local func_kwargs, consumed at line 77
    parsed,              \* command_line_args_dict, line 98
    extra_args,          \* tap.extra_args after parse_args
    err,                 \* the exception tapify ends with, "none" if none
    err_names,           \* the names the ValueError of line 92 lists
    call_kwargs,         \* the keyword arguments of the call of line 107
    invoked,             \* how many times the callable was called
    steps                \* the steps completed so far, in order

vars == <<class_or_function, command_line_args, kwargs_in, known_only_in, pc,
          idx, doc, description, param_to_description, annotations,
          class_variables, arguments, has_kwargs, known_only, func_kwargs,
          parsed, extra_args, err, err_names, call_kwargs, invoked, steps>>

\* The longest command line explored.
MaxTokens == 4

-----------------------------------------------------------------------------
(* Values, tokens and mappings *)

\* A raw command-line token: `dashes` leading "-" characters, then `body`.
Tok(d, b) == [dashes |-> d, body |-> b]

NoTok == Tok(0, "")

\* Python values: a string (carried as the token it is), an int, or the
\* Parameter.empty marker.
StrVal(t) == [kind |-> "str", tok |-> t, n |-> 0]

IntVal(k) == [kind |-> "int", tok |-> NoTok, n |-> k]

Empty == [kind |-> "empty", tok |-> NoTok, n |-> 0]

PyTrue == [kind |-> "bool", tok |-> NoTok, n |-> 1]

\* The empty dict.
EmptyMap == [x \in {} |-> Empty]

\* d with key k set to v (d[k] = v).
Put(d, k, v) == [x \in (DOMAIN d) \cup {k} |-> IF x = k THEN v ELSE d[x]]

\* d without key k (del d[k]).
Del(d, k) == [x \in (DOMAIN d) \ {k} |-> d[x]]

\* d.update(e): the entries of e win.
Update(d, e) == [x \in (DOMAIN d) \cup (DOMAIN e) |-> IF x \in DOMAIN e THEN e[x] ELSE d[x]]

-----------------------------------------------------------------------------
(* The inputs explored *)

\* inspect.Parameter: its name, kind, annotation ("empty" when none) and
\* default (Empty when none).
Param(name, kind, annotation, default) ==
    [name |-> name, kind |-> kind, annotation |-> annotation, default |-> default]

\* The default the explored callables declare, and the caller's overrides.
DeclaredDefault == IntVal(3)

OverrideOf(name) == IF name = "a" THEN IntVal(10) ELSE IntVal(11)

\* The parameter a, in every combination of annotation and default.
ParamsA ==
    { Param("a", "POSITIONAL_OR_KEYWORD", t, d) :
        t \in {"empty", "Any", "int"}, d \in {Empty, DeclaredDefault} }

\* A second parameter, b.
ParamB == Param("b", "POSITIONAL_OR_KEYWORD", "str", DeclaredDefault)

VarKeyword == Param("kwargs", "VAR_KEYWORD", "empty", Empty)

\* The named parameters of the explored signatures, in declaration order.
NamedLists ==
    {<<>>, <<ParamB>>}
    \cup { <<p>> : p \in ParamsA }
    \cup { <<p, ParamB>> : p \in ParamsA }
    \cup { <<ParamB, p>> : p \in ParamsA }

\* The explored signatures: **kwargs, when present, comes last.
Signatures == NamedLists \cup { Append(l, VarKeyword) : l \in NamedLists }

\* A documentation text, carried as what docstring_parser reads in it;
\* present = FALSE is None.
DocText(short, long, params) ==
    [present |-> TRUE, short |-> short, long |-> long, params |-> params]

NoneDoc == [present |-> FALSE, short |-> "", long |-> "", params |-> <<>>]

FunctionDoc == DocText("run f", "long f", << <<"q", "f: q">>, <<"a", "f: a">> >>)

ConstructorDoc == DocText("init C", "", << <<"a", "init: a">> >>)

ClassDoc == DocText("class C", "long C", << <<"a", "class: a">> >>)

\* object.__init__.__doc__, which every class without an __init__ of its
\* own inherits.
ObjectInitDoc ==
    DocText("Initialize self.  See help(type(self)) for accurate signature.", "", <<>>)

\* A callable: a function (its __doc__ in doc), or a class (its __doc__ in
\* doc, the __doc__ of the __init__ it defines in init_doc when own_init).
Callable(is_class, own_init, init_doc, d, params) ==
    [is_class |-> is_class, own_init |-> own_init, init_doc |-> init_doc,
     doc |-> d, params |-> params]

Functions == { Callable(FALSE, FALSE, NoneDoc, FunctionDoc, s) : s \in Signatures }

DocSignatures ==
    { <<>>, <<Param("a", "POSITIONAL_OR_KEYWORD", "int", DeclaredDefault)>>,
      <<Param("a", "POSITIONAL_OR_KEYWORD", "Any", Empty), VarKeyword>> }

DocCallables ==
    { Callable(FALSE, FALSE, NoneDoc, d, s) :
        d \in {NoneDoc, FunctionDoc}, s \in DocSignatures }
    \cup { Callable(TRUE, TRUE, i, d, s) :
        i \in {NoneDoc, ConstructorDoc}, d \in {NoneDoc, ClassDoc}, s \in DocSignatures }
    \cup { Callable(TRUE, FALSE, NoneDoc, d, <<>>) : d \in {NoneDoc, ClassDoc} }

\* The tokens of the explored command lines.
Tokens == { Tok(2, "a"), Tok(1, "a"), Tok(0, "5"), Tok(0, "x") }

TokenLists(n) == UNION { [1..k -> Tokens] : k \in 0..n }

\* The **func_kwargs explored: overrides for a, for the unknown z, or both.
OverrideMaps == { [x \in s |-> OverrideOf(x)] : s \in SUBSET {"a", "z"} }

-----------------------------------------------------------------------------
(* Lines 33-50: the signature, the documentation, the Tap object *)

\* class_or_function.__init__.__doc__: the __init__ the class defines, or
\* the one it inherits from object.
InitDocOf(c) == IF c.own_init THEN c.init_doc ELSE ObjectInitDoc

\* Lines 37-40: the documentation text tapify parses.
ChooseDoc(c) ==
    IF c.is_class /\ InitDocOf(c).present THEN InitDocOf(c) ELSE c.doc

\* docstring_parser.parse: None parses to an empty Docstring.
ParseDoc(d) ==
    IF d.present THEN [short |-> d.short, long |-> d.long, params |-> d.params]
    ELSE [short |-> "", long |-> "", params |-> <<>>]

\* Line 46: a dict comprehension over docstring.params, a later entry of a
\* name replacing an earlier one.
RECURSIVE ParamToDescription(_)
ParamToDescription(ps) ==
    IF ps = <<>> THEN [x \in {} |-> ""]
    ELSE LET rest == ParamToDescription(SubSeq(ps, 1, Len(ps) - 1))
             last == ps[Len(ps)]
         IN [x \in (DOMAIN rest) \cup {last[1]} |->
                IF x = last[1] THEN last[2] ELSE rest[x]]

\* Line 49: the lines "\n".join joins, None and "" filtered out.
Description(ds) == SelectSeq(<<ds.short, ds.long>>, LAMBDA x : x # "")

ReadDoc ==
    /\ pc = "start"
    /\ doc' = ChooseDoc(class_or_function)
    /\ param_to_description' = ParamToDescription(ParseDoc(doc').params)
    /\ description' = Description(ParseDoc(doc'))
    /\ pc' = "loop"
    /\ steps' = Append(steps, "doc")
    /\ UNCHANGED <<class_or_function, command_line_args, kwargs_in, known_only_in,
                   idx, annotations, class_variables, arguments, has_kwargs,
                   known_only, func_kwargs, parsed, extra_args, err, err_names,
                   call_kwargs, invoked>>

-----------------------------------------------------------------------------
(* Lines 56-88: one argument per parameter *)

\* EffectiveType without the special case of Any.
EffectiveTypeAsDeclared(annotation) == annotation

\* Lines 68-72: the type recorded for an annotated parameter.
EffectiveType(annotation) == IF annotation = "Any" THEN "str" ELSE annotation

\* Lines 66-72: tap._annotations after the parameter.
AnnotationsAfter(ann, param) ==
    IF param.annotation # "empty"
    THEN [x \in (DOMAIN ann) \cup {param.name} |->
            IF x = param.name THEN EffectiveType(param.annotation) ELSE ann[x]]
    ELSE ann

\* TapKwargs without the branch of lines 75-77: the override is not looked at.
TapKwargsIgnoringOverride(param, fk) ==
    IF param.default # Empty THEN Put(EmptyMap, "default", param.default)
    ELSE Put(EmptyMap, "required", PyTrue)

\* TapKwargs with the branches of lines 75 and 78 swapped: the declared
\* default is looked at first.
TapKwargsDefaultFirst(param, fk) ==
    IF param.default # Empty THEN Put(EmptyMap, "default", param.default)
    ELSE IF param.name \in DOMAIN fk THEN Put(EmptyMap, "default", fk[param.name])
    ELSE Put(EmptyMap, "required", PyTrue)

\* Lines 75-81: tap_kwargs for the parameter.
TapKwargs(param, fk) ==
    IF param.name \in DOMAIN fk THEN Put(EmptyMap, "default", fk[param.name])
    ELSE IF param.default # Empty THEN Put(EmptyMap, "default", param.default)
    ELSE Put(EmptyMap, "required", PyTrue)

\* Lines 75-77: func_kwargs after the parameter.
FuncKwargsAfter(param, fk) ==
    IF param.name \in DOMAIN fk THEN Del(fk, param.name) ELSE fk

\* Lines 84-85: tap.class_variables after the parameter.
ClassVariablesAfter(cv, param, descr) ==
    IF param.name \in DOMAIN descr
    THEN [x \in (DOMAIN cv) \cup {param.name} |->
            IF x = param.name THEN descr[param.name] ELSE cv[x]]
    ELSE cv

Parameters == class_or_function.params

\* Lines 60-63: **kwargs gets no argument and turns known_only on.
SkipVarKeyword ==
    /\ pc = "loop"
    /\ idx <= Len(Parameters)
    /\ Parameters[idx].kind = "VAR_KEYWORD"
    /\ has_kwargs' = TRUE
    /\ known_only' = TRUE
    /\ idx' = idx + 1
    /\ UNCHANGED <<class_or_function, command_line_args, kwargs_in, known_only_in,
                   pc, doc, description, param_to_description, annotations,
                   class_variables, arguments, func_kwargs, parsed, extra_args,
                   err, err_names, call_kwargs, invoked, steps>>

\* Lines 65-88: the argument of one parameter.
AddArgument ==
    /\ pc = "loop"
    /\ idx <= Len(Parameters)
    /\ Parameters[idx].kind # "VAR_KEYWORD"
    /\ LET param == Parameters[idx] IN
        /\ annotations' = AnnotationsAfter(annotations, param)
        /\ func_kwargs' = FuncKwargsAfter(param, func_kwargs)
        /\ class_variables' = ClassVariablesAfter(class_variables, param, param_to_description)
        /\ arguments' = Append(arguments,
                               [name |-> param.name, kwargs |-> TapKwargs(param, func_kwargs)])
    /\ idx' = idx + 1
    /\ UNCHANGED <<class_or_function, command_line_args, kwargs_in, known_only_in,
                   pc, doc, description, param_to_description, has_kwargs,
                   known_only, parsed, extra_args, err, err_names, call_kwargs,
                   invoked, steps>>

-----------------------------------------------------------------------------
(* Lines 90-92: the leftover func_kwargs *)

\* UnknownKwargsRaise without "and not known_only".
UnknownKwargsRaiseAlways(fk, ko) == DOMAIN fk # {}

\* UnknownKwargsRaise with the check of lines 91-92 left out.
UnknownKwargsNeverRaise(fk, ko) == FALSE

\* Line 91: whether the ValueError is raised.
UnknownKwargsRaise(fk, ko) == DOMAIN fk # {} /\ ~ko

RaiseUnknownKwargs ==
    /\ pc = "loop"
    /\ idx > Len(Parameters)
    /\ UnknownKwargsRaise(func_kwargs, known_only)
    /\ pc' = "error"
    /\ err' = "ValueError"
    /\ err_names' = DOMAIN func_kwargs
    /\ steps' = Append(steps, "schema")
    /\ UNCHANGED <<class_or_function, command_line_args, kwargs_in, known_only_in,
                   idx, doc, description, param_to_description, annotations,
                   class_variables, arguments, has_kwargs, known_only, func_kwargs,
                   parsed, extra_args, call_kwargs, invoked>>

PassUnknownKwargs ==
    /\ pc = "loop"
    /\ idx > Len(Parameters)
    /\ ~UnknownKwargsRaise(func_kwargs, known_only)
    /\ pc' = "parse"
    /\ steps' = Append(Append(steps, "schema"), "check")
    /\ UNCHANGED <<class_or_function, command_line_args, kwargs_in, known_only_in,
                   idx, doc, description, param_to_description, annotations,
                   class_variables, arguments, has_kwargs, known_only, func_kwargs,
                   parsed, extra_args, err, err_names, call_kwargs, invoked>>

-----------------------------------------------------------------------------
(* Lines 94-98: Tap.parse_args and as_dict *)

IsNumeral(b) == b \in {"5"}

NumeralValue(b) == CASE b = "5" -> 5 [] OTHER -> 0

\* The type the parser converts an argument's token to: the annotation
\* recorded for it, a string when none was.
TypeOf(ann, name) == IF name \in DOMAIN ann THEN ann[name] ELSE "str"

\* Whether a token converts to the type, and what to.
Converts(type, tok) == type # "int" \/ IsNumeral(tok.body)

Convert(type, tok) ==
    IF type = "int" THEN IntVal(NumeralValue(tok.body)) ELSE StrVal(tok)

\* The scan of the tokens from position i on: "--name value" sets an
\* argument, any other token is left over when lenient and an error when
\* not.  acc holds the values set, the leftover tokens and the first error.
RECURSIVE Scan(_, _, _, _, _, _)
Scan(toks, i, acc, names, ann, lenient) ==
    IF i > Len(toks) \/ acc.err # "none" THEN acc
    ELSE IF toks[i].dashes = 2 /\ toks[i].body \in names
    THEN IF i + 1 > Len(toks) \/ toks[i + 1].dashes # 0
         THEN [acc EXCEPT !.err = "ExpectedOneArgument"]
         ELSE IF ~Converts(TypeOf(ann, toks[i].body), toks[i + 1])
         THEN [acc EXCEPT !.err = "TypeConversion"]
         ELSE Scan(toks, i + 2,
                   [acc EXCEPT !.values =
                       Put(acc.values, toks[i].body,
                           Convert(TypeOf(ann, toks[i].body), toks[i + 1]))],
                   names, ann, lenient)
    ELSE IF lenient
    THEN Scan(toks, i + 1, [acc EXCEPT !.extras = Append(acc.extras, toks[i])],
              names, ann, lenient)
    ELSE [acc EXCEPT !.err = "UnrecognizedArguments"]

ArgumentNames(args) == { args[k].name : k \in DOMAIN args }

\* The kwargs the argument was added with.
ArgumentKwargs(args, name) ==
    LET k == CHOOSE i \in DOMAIN args : args[i].name = name
    IN args[k].kwargs

\* tap.parse_args(args, known_only): the values, the leftover tokens, and
\* the error, "none" when there is none.
ParseArgs(args, ann, toks, lenient) ==
    LET scanned == Scan(toks, 1, [values |-> EmptyMap, extras |-> <<>>, err |-> "none"],
                        ArgumentNames(args), ann, lenient)
        missing == { n \in ArgumentNames(args) :
                        /\ n \notin DOMAIN scanned.values
                        /\ "default" \notin DOMAIN ArgumentKwargs(args, n) }
    IN IF scanned.err = "none" /\ missing # {}
       THEN [scanned EXCEPT !.err = "MissingRequiredArgument"]
       ELSE scanned

\* as_dict: every argument's value, its default when the command line set
\* none.
AsDict(args, values) ==
    [n \in ArgumentNames(args) |->
        IF n \in DOMAIN values THEN values[n] ELSE ArgumentKwargs(args, n)["default"]]

ParseResult == ParseArgs(arguments, annotations, command_line_args, known_only)

\* Lines 95-98 when parse_args returns.
ParseCommandLine ==
    /\ pc = "parse"
    /\ ParseResult.err = "none"
    /\ parsed' = AsDict(arguments, ParseResult.values)
    /\ extra_args' = ParseResult.extras
    /\ pc' = "merge"
    /\ steps' = Append(steps, "parse")
    /\ UNCHANGED <<class_or_function, command_line_args, kwargs_in, known_only_in,
                   idx, doc, description, param_to_description, annotations,
                   class_variables, arguments, has_kwargs, known_only, func_kwargs,
                   err, err_names, call_kwargs, invoked>>

\* Line 95 when parse_args raises: the error propagates.
ParseRaises ==
    /\ pc = "parse"
    /\ ParseResult.err # "none"
    /\ err' = ParseResult.err
    /\ pc' = "error"
    /\ UNCHANGED <<class_or_function, command_line_args, kwargs_in, known_only_in,
                   idx, doc, description, param_to_description, annotations,
                   class_variables, arguments, has_kwargs, known_only, func_kwargs,
                   parsed, extra_args, err_names, call_kwargs, invoked, steps>>

-----------------------------------------------------------------------------
(* Lines 100-104: **kwargs from the leftover tokens *)

\* str.lstrip("-") of a token: what follows its leading dashes.
Lstrip(tok) == tok.body

\* range(0, len(extras), 2), as positions of the 1-based sequence.
PairStarts(extras) == { i \in 1..Len(extras) : i % 2 = 1 }

\* ExtrasIndexError for range(0, len(extras) - 1, 2): a last token without
\* a pair is passed over.
ExtrasNeverIndexError(extras) == FALSE

\* Line 102: extras[i + 1] of the last pair is out of range.
ExtrasIndexError(extras) == \E i \in PairStarts(extras) : i + 1 > Len(extras)

\* ExtraKwargs with the first pair of a key kept.
ExtraKwargsFirstWins(extras) ==
    LET starts == { i \in 1..Len(extras) : i % 2 = 1 /\ i + 1 <= Len(extras) }
        keys == { extras[i].body : i \in starts }
        first(k) == CHOOSE i \in starts :
                      /\ extras[i].body = k
                      /\ \A j \in starts : extras[j].body = k => i <= j
    IN [k \in keys |-> StrVal(extras[first(k) + 1])]

\* Line 102: the dict comprehension, a later pair of a key replacing an
\* earlier one.
ExtraKwargs(extras) ==
    LET starts == { i \in PairStarts(extras) : i + 1 <= Len(extras) }
        keys == { Lstrip(extras[i]) : i \in starts }
        last(k) == CHOOSE i \in starts :
                      /\ Lstrip(extras[i]) = k
                      /\ \A j \in starts : Lstrip(extras[j]) = k => j <= i
    IN [k \in keys |-> StrVal(extras[last(k) + 1])]

\* Line 104: command_line_args_dict.update(kwargs).
MergedDict(d, extras) == Update(d, ExtraKwargs(extras))

MergeKwargs ==
    /\ pc = "merge"
    /\ has_kwargs
    /\ ~ExtrasIndexError(extra_args)
    /\ parsed' = MergedDict(parsed, extra_args)
    /\ pc' = "call"
    /\ steps' = Append(steps, "merge")
    /\ UNCHANGED <<class_or_function, command_line_args, kwargs_in, known_only_in,
                   idx, doc, description, param_to_description, annotations,
                   class_variables, arguments, has_kwargs, known_only, func_kwargs,
                   extra_args, err, err_names, call_kwargs, invoked>>

MergeRaises ==
    /\ pc = "merge"
    /\ has_kwargs
    /\ ExtrasIndexError(extra_args)
    /\ err' = "IndexError"
    /\ pc' = "error"
    /\ UNCHANGED <<class_or_function, command_line_args, kwargs_in, known_only_in,
                   idx, doc, description, param_to_description, annotations,
                   class_variables, arguments, has_kwargs, known_only, func_kwargs,
                   parsed, extra_args, err_names, call_kwargs, invoked, steps>>

\* Line 101 when the callable has no **kwargs.
SkipMerge ==
    /\ pc = "merge"
    /\ ~has_kwargs
    /\ pc' = "call"
    /\ steps' = Append(steps, "merge")
    /\ UNCHANGED <<class_or_function, command_line_args, kwargs_in, known_only_in,
                   idx, doc, description, param_to_description, annotations,
                   class_variables, arguments, has_kwargs, known_only, func_kwargs,
                   parsed, extra_args, err, err_names, call_kwargs, invoked>>

-----------------------------------------------------------------------------
(* Line 107: the call *)

Invoke ==
    /\ pc = "call"
    /\ call_kwargs' = parsed
    /\ invoked' = invoked + 1
    /\ pc' = "done"
    /\ steps' = Append(steps, "call")
    /\ UNCHANGED <<class_or_function, command_line_args, kwargs_in, known_only_in,
                   idx, doc, description, param_to_description, annotations,
                   class_variables, arguments, has_kwargs, known_only, func_kwargs,
                   parsed, extra_args, err, err_names>>

-----------------------------------------------------------------------------
(* The runs explored *)

\* The command lines explored with the callables of DocCallables.
DocCommandLines == { <<>>, <<Tok(2, "a"), Tok(0, "5")>> }

Init ==
    /\ \/ /\ class_or_function \in Functions
          /\ command_line_args \in TokenLists(MaxTokens)
          /\ kwargs_in \in OverrideMaps
          /\ known_only_in \in BOOLEAN
       \/ /\ class_or_function \in DocCallables
          /\ command_line_args \in DocCommandLines
          /\ kwargs_in = EmptyMap
          /\ known_only_in = FALSE
    /\ pc = "start"
    /\ idx = 1
    /\ doc = NoneDoc
    /\ description = <<>>
    /\ param_to_description = EmptyMap
    /\ annotations = EmptyMap
    /\ class_variables = EmptyMap
    /\ arguments = <<>>
    /\ has_kwargs = FALSE
    /\ known_only = known_only_in
    /\ func_kwargs = kwargs_in
    /\ parsed = EmptyMap
    /\ extra_args = <<>>
    /\ err = "none"
    /\ err_names = {}
    /\ call_kwargs = EmptyMap
    /\ invoked = 0
    /\ steps = <<>>

Next ==
    \/ ReadDoc
    \/ SkipVarKeyword
    \/ AddArgument
    \/ RaiseUnknownKwargs
    \/ PassUnknownKwargs
    \/ ParseCommandLine
    \/ ParseRaises
    \/ MergeKwargs
    \/ MergeRaises
    \/ SkipMerge
    \/ Invoke

Spec == Init /\ [][Next]_vars

-----------------------------------------------------------------------------
(* What the properties below speak of *)

\* The parameters of the signature other than **kwargs, in order.
NamedParams == SelectSeq(Parameters, LAMBDA p : p.kind # "VAR_KEYWORD")

NamedNames == { NamedParams[k].name : k \in DOMAIN NamedParams }

HasVarKeyword == \E k \in DOMAIN Parameters : Parameters[k].kind = "VAR_KEYWORD"

\* The parameters the loop has been through.
Processed == SubSeq(Parameters, 1, idx - 1)

ProcessedNamed == SelectSeq(Processed, LAMBDA p : p.kind # "VAR_KEYWORD")

\* The loop is over and the leftover func_kwargs were looked at.
PastCheck == pc \notin {"start", "loop"}

\* parse_args has returned.
PastParse == pc \in {"merge", "call", "done"} \/ (pc = "error" /\ err = "IndexError")

\* The overrides that name no parameter, and whether unknown arguments are
\* tolerated: the caller asked for it, or the callable takes **kwargs.
LeftoverNames == (DOMAIN kwargs_in) \ NamedNames

Lenient == known_only_in \/ HasVarKeyword

\* Where the command line holds the flag --name.
FlagPositions(name) ==
    { i \in DOMAIN command_line_args : command_line_args[i] = Tok(2, name) }

LastFlag(name) ==
    CHOOSE i \in FlagPositions(name) : \A j \in FlagPositions(name) : j <= i

\* C1: the final call gives every parameter other than **kwargs the value of
\* its command-line token when --p is on the command line, else its
\* override when one was supplied, else its declared default.
C1_CommandLineThenOverrideThenDefault ==
    pc = "done" =>
        \A k \in DOMAIN NamedParams :
            LET p == NamedParams[k]
                type == IF p.annotation = "int" THEN "int" ELSE "str"
            IN /\ p.name \in DOMAIN call_kwargs
               /\ call_kwargs[p.name] =
                    IF FlagPositions(p.name) # {}
                    THEN Convert(type, command_line_args[LastFlag(p.name) + 1])
                    ELSE IF p.name \in DOMAIN kwargs_in THEN kwargs_in[p.name]
                    ELSE p.default

\* C2: the arguments added are exactly the parameters other than **kwargs,
\* one each and in order; each has exactly one of required = True and a
\* default, and is required exactly when its parameter has neither a declared
\* default nor an override.
C2_OneArgumentPerNamedParameter ==
    /\ [k \in DOMAIN arguments |-> arguments[k].name]
         = [k \in DOMAIN ProcessedNamed |-> ProcessedNamed[k].name]
    /\ PastCheck => Len(arguments) = Len(NamedParams)
    /\ \A k \in DOMAIN arguments :
        LET kw == arguments[k].kwargs
            p == ProcessedNamed[k]
            required == "required" \in DOMAIN kw /\ kw["required"] = PyTrue
        IN /\ DOMAIN kw \in {{"required"}, {"default"}}
           /\ required <=> (p.default = Empty /\ p.name \notin DOMAIN kwargs_in)

C2_Witness ==
    /\ pc = "parse"
    /\ HasVarKeyword
    /\ Len(arguments) = 2
    /\ "required" \in DOMAIN arguments[1].kwargs
    /\ "default" \in DOMAIN arguments[2].kwargs

\* C3: a parameter with a declared default D and an override O gets the
\* default O, not D, is not required, and its key is gone from func_kwargs
\* once its argument is added.
C3_OverrideBeatsDeclaredDefault ==
    \A k \in DOMAIN arguments :
        LET p == ProcessedNamed[k]
            kw == arguments[k].kwargs
        IN (p.default # Empty /\ p.name \in DOMAIN kwargs_in) =>
              /\ "default" \in DOMAIN kw
              /\ kw["default"] = kwargs_in[p.name]
              /\ kw["default"] # p.default
              /\ "required" \notin DOMAIN kw
              /\ p.name \notin DOMAIN func_kwargs

C3_Witness ==
    /\ pc = "loop"
    /\ \E k \in DOMAIN arguments :
        /\ ProcessedNamed[k].default = DeclaredDefault
        /\ ProcessedNamed[k].name \in DOMAIN kwargs_in
        /\ arguments[k].kwargs["default"] = OverrideOf(arguments[k].name)

\* C4: with an override that names no parameter, tapify raises ValueError
\* listing the leftover names, before parsing and without calling, when
\* unknown arguments are not tolerated; when they are, the check passes and
\* the override reaches no keyword argument of the final call.
C4_UnknownOverride ==
    (PastCheck /\ LeftoverNames # {}) =>
        IF ~Lenient
        THEN /\ pc = "error"
             /\ err = "ValueError"
             /\ err_names = LeftoverNames
             /\ steps = <<"doc", "schema">>
             /\ invoked = 0
        ELSE /\ err # "ValueError"
             /\ SubSeq(steps, 1, 3) = <<"doc", "schema", "check">>
             /\ pc = "done" =>
                  \A n \in LeftoverNames :
                      n \in DOMAIN call_kwargs => call_kwargs[n] # kwargs_in[n]

C4_Witness ==
    /\ pc = "done"
    /\ HasVarKeyword
    /\ ~known_only_in
    /\ \E n \in LeftoverNames : n \in DOMAIN call_kwargs

\* C4, the other case: the ValueError raised, listing both leftover names.
C4_WitnessRaised ==
    /\ pc = "error"
    /\ err = "ValueError"
    /\ err_names = {"a", "z"}

\* C5: for a callable with **kwargs, an odd number of leftover tokens ends
\* the run in an error, the callable not called: the last token is never
\* dropped and the remaining pairs used.
C5_OddLeftoverFails ==
    (HasVarKeyword /\ PastParse /\ pc # "merge" /\ Len(extra_args) % 2 = 1) =>
        /\ pc = "error"
        /\ err = "IndexError"
        /\ invoked = 0
        /\ call_kwargs = EmptyMap

C5_Witness ==
    /\ pc = "error"
    /\ err = "IndexError"
    /\ Len(extra_args) = 3

\* The leftover tokens alternate flag and value.
Alternating(extras) ==
    /\ Len(extras) % 2 = 0
    /\ \A i \in DOMAIN extras : (extras[i].dashes > 0) <=> (i % 2 = 1)

\* The final call holds nothing but the parsed value of each argument.
OnlyParsedValues ==
    /\ DOMAIN call_kwargs = NamedNames
    /\ call_kwargs = AsDict(arguments, ParseResult.values)

\* C6 as stated: for a callable with **kwargs, every leftover pair (flag,
\* value) is in the final call as the flag without its dashes, with the
\* value token as its string; without **kwargs no leftover token is in it.
C6_EveryPairIsPassed ==
    pc = "done" =>
        IF HasVarKeyword
        THEN Alternating(extra_args) =>
                \A i \in PairStarts(extra_args) :
                    /\ Lstrip(extra_args[i]) \in DOMAIN call_kwargs
                    /\ call_kwargs[Lstrip(extra_args[i])] = StrVal(extra_args[i + 1])
        ELSE OnlyParsedValues

\* C6 as amended: every leftover pair whose flag name no later pair
\* repeats is in the final call.
C6_LastPairOfEachFlagIsPassed ==
    pc = "done" =>
        IF HasVarKeyword
        THEN Alternating(extra_args) =>
                \A i \in PairStarts(extra_args) :
                    (\A j \in PairStarts(extra_args) :
                        j > i => Lstrip(extra_args[j]) # Lstrip(extra_args[i])) =>
                    /\ Lstrip(extra_args[i]) \in DOMAIN call_kwargs
                    /\ call_kwargs[Lstrip(extra_args[i])] = StrVal(extra_args[i + 1])
        ELSE OnlyParsedValues

C6_Witness ==
    /\ pc = "done"
    /\ HasVarKeyword
    /\ extra_args = <<Tok(2, "a"), Tok(0, "5"), Tok(1, "a"), Tok(0, "x")>>
    /\ call_kwargs["a"] = StrVal(Tok(0, "x"))

\* C7: the keys made of the leftover tokens are none of the arguments'
\* names, so the merge replaces no parsed value.
C7_ExtraKeysDisjointFromArguments ==
    (HasVarKeyword /\ pc \in {"call", "done"}) =>
        /\ DOMAIN ExtraKwargs(extra_args) \cap ArgumentNames(arguments) = {}
        /\ \A n \in ArgumentNames(arguments) :
              parsed[n] = AsDict(arguments, ParseResult.values)[n]

\* C8: the type recorded for a parameter is str when it is annotated Any,
\* its annotation when it has another, and none when it has no annotation,
\* with or without a default or an override.
C8_EffectiveType ==
    \A k \in DOMAIN ProcessedNamed :
        LET p == ProcessedNamed[k] IN
        CASE p.annotation = "Any" ->
                p.name \in DOMAIN annotations /\ annotations[p.name] = "str"
          [] p.annotation = "empty" -> p.name \notin DOMAIN annotations
          [] OTHER ->
                p.name \in DOMAIN annotations /\ annotations[p.name] = p.annotation

C8_Witness ==
    /\ pc = "parse"
    /\ \E k \in DOMAIN NamedParams :
        /\ NamedParams[k].annotation = "Any"
        /\ NamedParams[k].default # Empty
        /\ NamedParams[k].name \in DOMAIN kwargs_in
        /\ annotations[NamedParams[k].name] = "str"
    /\ \E k \in DOMAIN NamedParams : annotations[NamedParams[k].name] = "str"
                                       /\ NamedParams[k].annotation = "str"

\* C9: the documentation used is, for a class, that of the constructor the
\* class defines when it has one, else the class's own (also when the class
\* defines no constructor); for a function its own; with none, the
\* description and the help texts are empty.
C9_DocumentationChosen ==
    pc # "start" =>
        LET c == class_or_function
            claimed == IF c.is_class /\ c.own_init /\ c.init_doc.present
                       THEN c.init_doc ELSE c.doc
        IN /\ doc = claimed
           /\ description = SelectSeq(<<claimed.short, claimed.long>>, LAMBDA x : x # "")
           /\ ~claimed.present => (description = <<>> /\ param_to_description = EmptyMap)

\* C10: the callable is called at most once, as the last step and after the
\* schema, the check of the overrides, the parse and the merge; a run that
\* fails at any of them never calls it.
C10_CalledOnceAndLast ==
    /\ invoked \in {0, 1}
    /\ invoked = 1 =>
          /\ pc = "done"
          /\ err = "none"
          /\ steps = <<"doc", "schema", "check", "parse", "merge", "call">>
    /\ pc = "error" => (invoked = 0 /\ err # "none")
    /\ (PastCheck /\ LeftoverNames # {} /\ ~Lenient) => invoked = 0
    /\ (PastCheck /\ \E k \in DOMAIN NamedParams :
            /\ NamedParams[k].default = Empty
            /\ NamedParams[k].name \notin DOMAIN kwargs_in
            /\ FlagPositions(NamedParams[k].name) = {}) => invoked = 0
    /\ (PastCheck /\ \E k \in DOMAIN NamedParams :
            /\ NamedParams[k].annotation = "int"
            /\ \E i \in FlagPositions(NamedParams[k].name) :
                  i + 1 \in DOMAIN command_line_args
                  /\ ~IsNumeral(command_line_args[i + 1].body)) => invoked = 0
    /\ (HasVarKeyword /\ PastParse /\ Len(extra_args) % 2 = 1) => invoked = 0

C10_Witness ==
    /\ pc = "done"
    /\ invoked = 1
    /\ HasVarKeyword
    /\ Len(extra_args) = 2
    /\ Len(arguments) = 2

====
